---- MODULE Spec2Model ----
(***************************************************************************)
(* Model of the CRUS / soil-loss raster scripts of ManuMarsu/crus.          *)
(*                                                                         *)
(*   perte08  src/08_PerteSol_BasRhin/calcul_perte_sol.py                  *)
(*   crus11   src/11_CRUS_baunois_chalonais/formuleSensibilite..._battance *)
(*   copie15  src/15_CRUS_63_impactPente/formule..._battance - Copie.py    *)
(*   crus15   src/15_CRUS_63_impactPente/formule..._battance.py            *)
(*   perte17  src/17_PerteSol_BasRhin/calcul_perte_sol.py                  *)
(*                                                                         *)
(* Spec starts when the (aligned) rasters have been read and flattened,     *)
(* and covers, per land-cover scenario, the chunk test, the split, one      *)
(* kernel dispatch per chunk (or one for the whole array), the              *)
(* concatenation / reshape and the writing of the output rasters.           *)
(*                                                                         *)
(* SpecAlign is the whole run of the scripts that align their inputs        *)
(* (crus15, copie15, perte17): the loading of the correspondence tables,    *)
(* lire_raster and the common box, the warp threads, their join, the        *)
(* reading of the rasters, and then the steps of Spec.                      *)
(*                                                                         *)
(* Numbers.  The CRUS arrays are integer arrays (gdal.Warp is called with   *)
(* outputType=GDT_Int16 and every work array is a .copy() of the land-cover *)
(* array), so a float stored in them is truncated toward zero; the blends   *)
(* are computed exactly, in hundredths.  The soil-loss arrays are float     *)
(* arrays; their values are modelled as exact reals q * t1 * ... * tn with  *)
(* q a reduced fraction and t1..tn unevaluated positive terms (L, S(pente), *)
(* LS(pente)); float rounding is not modelled.                              *)
(*                                                                         *)
(* A kernel launch is modelled on the positions 0..n-1 of its arrays; the   *)
(* number of threads launched is recorded in `dispatch`.  The kernels have  *)
(* no `if pos < n` guard: when more threads than positions are launched,    *)
(* the accesses past the end either go unnoticed or end the run with a      *)
(* CUDA error (LaunchFault).                                                *)
(***************************************************************************)
EXTENDS Integers, Sequences, FiniteSets, TLC

VARIABLES
    script,     \* which script runs
    dimmax,     \* chunk threshold (10000000 / 1000000000 in the scripts)
    dim1, dim2, \* shape of the last raster read that sets (dim1,dim2)
    ndvDecl,    \* no-data value declared by each input raster (perte17)
    ndv,        \* the no-data value main() passes to the kernel (perte17)
    tabCorCod,  \* slope reclass table (code_reclassPentes.txt)
    tabCoefBat, \* crust multiplier table (codes_battance.txt)
    occ_sol_coeff_c, \* C coefficient table (correspondance_coefC_occ_sol.txt)
    host,       \* host flat arrays, by name
    host0,      \* the flat arrays as they were read (never changes)
    hostEval,   \* the flat arrays when the current scenario began
    scen,       \* index of the land-cover scenario being processed
    pc,         \* "tables", "dico", "threads", "start", "join", "read",
                \* "eval", "loop", "write", "done", "crash"
    nb,         \* number of chunks of the current scenario (0: single pass)
    i,          \* loop index of the chunk loop
    lst,        \* per input array, the list of chunk views
    res_lst,    \* per output, the list of per-chunk result arrays
    raster,     \* per output, the 2-D result of the current scenario
    dispatch,   \* every kernel launch so far: array length and thread count
    device,     \* the arrays of the last kernel launch, before and after it
    written,    \* every output raster created so far
    tableFiles, \* the lines of the correspondence files, split at "="
    geo,        \* extent and resolution of every input raster file
    disk,       \* the resampled files on disk: "absent", "stale", "fresh"
    faulty,     \* the warp threads whose gdal.Warp call fails
    thr,        \* state of every warp thread
    joined,     \* number of join() calls that have returned
    box,        \* the box and resolution computed from dico
    warps,      \* number of gdal.Warp calls so far
    opened,     \* the raster files main has opened to read their arrays
    err         \* the exception that ended the run, or "none"

vars == <<script, dimmax, dim1, dim2, ndvDecl, ndv, tabCorCod, tabCoefBat,
          occ_sol_coeff_c, host, host0, hostEval, scen, pc, nb, i, lst, res_lst,
          raster, dispatch, device, written, tableFiles, geo, disk, faulty,
          thr, joined, box, warps, opened, err>>

\* the variables of the alignment phase
alignVars == <<tableFiles, geo, disk, faulty, thr, joined, box, warps, opened,
               err>>

(***************************************************************************)
(* Bounds of the model.                                                    *)
(***************************************************************************)
\* rasters have 1..MaxDim rows and 1..MaxDim columns
MaxDim == 3
\* the threshold dimmax ranges over 1..MaxDimmax
MaxDimmax == 9
\* only thresholds that give at most MaxChunks chunks are explored
MaxChunks == 4

(***************************************************************************)
(* Generic helpers.                                                        *)
(***************************************************************************)
Abs(x) == IF x < 0 THEN -x ELSE x

\* C cast of the real a/b (b > 0) to an integer: truncation toward zero.
TruncDiv(a, b) == IF a >= 0 THEN a \div b ELSE -((-a) \div b)

CeilDiv(a, b) == (a + b - 1) \div b

RECURSIVE GCD(_, _)
GCD(a, b) == IF b = 0 THEN a ELSE GCD(b, a % b)

RECURSIVE Concat(_)
Concat(ss) == IF ss = <<>> THEN <<>> ELSE Head(ss) \o Concat(Tail(ss))

\* a[lo:hi] of numpy (0-based, half open) on a 1-based sequence
Slice(a, lo, hi) == [k \in 1..(hi - lo) |-> a[lo + k]]

(***************************************************************************)
(* CRUS kernels.  A `cell` holds the values at one position `pos` of every  *)
(* array passed to the kernel; the kernel operators return the cell after   *)
(* the thread of that position has run.                                     *)
(***************************************************************************)

\* for i in range(tabCorCod.shape[0]):
\*     if dataPentes[pos] == tabCorCod[i,0]: dataPentes[pos] = tabCorCod[i,1]
\* (no break: the value just written is compared with the following keys)
RECURSIVE ReclassLoop(_, _, _)
ReclassLoop(v, tab, k) ==
    IF k > Len(tab) THEN v
    ELSE ReclassLoop(IF v = tab[k][1] THEN tab[k][2] ELSE v, tab, k + 1)

\* 0.4 * dataPentes + 0.35 * dataPermea + 0.25 * dataOccSol, in hundredths
BlendPente(c) == 40 * c.dataPentes + 35 * c.dataPermea + 25 * c.dataOccSol

\* a blend without slope that keeps a tenth of the slope
BlendSansPenteLeaky(c) == 10 * c.dataPentes + 60 * c.dataPermea + 40 * c.dataOccSol

\* 0 * dataPentes + 0.6 * dataPermea + 0.4 * dataOccSol, in hundredths
BlendSansPente(c) == 0 * c.dataPentes + 60 * c.dataPermea + 40 * c.dataOccSol

\* the if / elif chain that turns a stored value into a class
Quantize(v) ==
    IF v < 0 THEN -1
    ELSE IF v <= 32 THEN 0
    ELSE IF v <= 42 THEN 1
    ELSE IF v <= 55 THEN 2
    ELSE 3

\* a loop that does not divide the multiplier by 100
RECURSIVE BattLoop15Percent(_, _, _)
BattLoop15Percent(c, tab, k) ==
    IF k > Len(tab) THEN c
    ELSE BattLoop15Percent(
            IF c.dataBattance = tab[k][1]
            THEN [c EXCEPT
                    !.dataResult = TruncDiv(tab[k][2] * BlendPente(c), 100),
                    !.dataResult_sp = TruncDiv(tab[k][2] * BlendSansPente(c), 100)]
            ELSE c,
            tab, k + 1)

\* crus15: the loop over tabCoefBat writes dataResult and dataResult_sp (an
\* integer array: the float is truncated) at every matching entry
RECURSIVE BattLoop15(_, _, _)
BattLoop15(c, tab, k) ==
    IF k > Len(tab) THEN c
    ELSE BattLoop15(
            IF c.dataBattance = tab[k][1]
            THEN [c EXCEPT
                    !.dataResult = TruncDiv(tab[k][2] * BlendPente(c), 10000),
                    !.dataResult_sp = TruncDiv(tab[k][2] * BlendSansPente(c), 10000)]
            ELSE c,
            tab, k + 1)

\* a packing with the weights of the first two comparisons exchanged
DiffCode15Swapped(c) ==
    20000 + (IF c.dataResult = c.data_Ssbatt THEN 100 ELSE 0)
          + (IF c.dataResult_sp = c.data_Ssbatt_sp THEN 1000 ELSE 0)
          + (IF c.dataResult = c.dataResult_sp THEN 10 ELSE 0)
          + (IF c.data_Ssbatt = c.data_Ssbatt_sp THEN 1 ELSE 0)

\* a packing whose last comparison is an inequality
DiffCode15Loose(c) ==
    20000 + (IF c.dataResult = c.data_Ssbatt THEN 1000 ELSE 0)
          + (IF c.dataResult_sp = c.data_Ssbatt_sp THEN 100 ELSE 0)
          + (IF c.dataResult = c.dataResult_sp THEN 10 ELSE 0)
          + (IF c.data_Ssbatt <= c.data_Ssbatt_sp THEN 1 ELSE 0)

\* crus15: dataDiff[pos] = 20000, then += 1000 / 100 / 10 / 1
DiffCode15(c) ==
    LET d0 == 20000
        d1 == IF c.dataResult = c.data_Ssbatt THEN d0 + 1000 ELSE d0
        d2 == IF c.dataResult_sp = c.data_Ssbatt_sp THEN d1 + 100 ELSE d1
        d3 == IF c.dataResult = c.dataResult_sp THEN d2 + 10 ELSE d2
        d4 == IF c.data_Ssbatt = c.data_Ssbatt_sp THEN d3 + 1 ELSE d3
    IN  d4

my_kernel15(c0, tCor, tBat) ==
    LET c1 == [c0 EXCEPT !.dataPentes = ReclassLoop(c0.dataPentes, tCor, 1)]
        c2 == BattLoop15(c1, tBat, 1)
        c3 == [c2 EXCEPT
                 !.data_Ssbatt = TruncDiv(BlendPente(c2), 100),
                 !.data_Ssbatt_sp = TruncDiv(BlendSansPente(c2), 100)]
        c4 == [c3 EXCEPT
                 !.dataResult = Quantize(c3.dataResult),
                 !.dataResult_sp = Quantize(c3.dataResult_sp),
                 !.data_Ssbatt = Quantize(c3.data_Ssbatt),
                 !.data_Ssbatt_sp = Quantize(c3.data_Ssbatt_sp)]
    IN  [c4 EXCEPT !.dataDiff = DiffCode15(c4)]

\* crus11: both blends are the "without slope" blend
RECURSIVE BattLoop11(_, _, _)
BattLoop11(c, tab, k) ==
    IF k > Len(tab) THEN c
    ELSE BattLoop11(
            IF c.dataBattance = tab[k][1]
            THEN [c EXCEPT
                    !.dataResult = TruncDiv(tab[k][2] * BlendSansPente(c), 10000)]
            ELSE c,
            tab, k + 1)

\* crus11 and copie15: dataDiff[pos] = 1 if the two classes agree, else -1
DiffCode2(c) == IF c.data_Ssbatt = c.dataResult THEN 1 ELSE -1

my_kernel11(c0, tCor, tBat) ==
    LET c1 == [c0 EXCEPT !.dataPentes = ReclassLoop(c0.dataPentes, tCor, 1)]
        c2 == BattLoop11(c1, tBat, 1)
        c3 == [c2 EXCEPT !.data_Ssbatt = TruncDiv(BlendSansPente(c2), 100)]
        c4 == [c3 EXCEPT
                 !.dataResult = Quantize(c3.dataResult),
                 !.data_Ssbatt = Quantize(c3.data_Ssbatt)]
    IN  [c4 EXCEPT !.dataDiff = DiffCode2(c4)]

\* copie15: both blends are the "with slope" blend
RECURSIVE BattLoopCopie(_, _, _)
BattLoopCopie(c, tab, k) ==
    IF k > Len(tab) THEN c
    ELSE BattLoopCopie(
            IF c.dataBattance = tab[k][1]
            THEN [c EXCEPT
                    !.dataResult = TruncDiv(tab[k][2] * BlendPente(c), 10000)]
            ELSE c,
            tab, k + 1)

my_kernelCopie(c0, tCor, tBat) ==
    LET c1 == [c0 EXCEPT !.dataPentes = ReclassLoop(c0.dataPentes, tCor, 1)]
        c2 == BattLoopCopie(c1, tBat, 1)
        c3 == [c2 EXCEPT !.data_Ssbatt = TruncDiv(BlendPente(c2), 100)]
        c4 == [c3 EXCEPT
                 !.dataResult = Quantize(c3.dataResult),
                 !.data_Ssbatt = Quantize(c3.data_Ssbatt)]
    IN  [c4 EXCEPT !.dataDiff = DiffCode2(c4)]

(***************************************************************************)
(* Exact reals of the soil-loss kernels: n/d * t[1] * ... * t[Len(t)], with *)
(* n/d reduced (d > 0) and t a sequence of unevaluated positive terms.      *)
(***************************************************************************)
RNorm(n, d, t) ==
    IF n = 0 THEN [n |-> 0, d |-> 1, t |-> <<>>]
    ELSE LET g == GCD(Abs(n), d) IN [n |-> n \div g, d |-> d \div g, t |-> t]

RQ(n, d) == RNorm(n, d, <<>>)

RInt(n) == RQ(n, 1)

RTerm(name, arg) == [n |-> 1, d |-> 1, t |-> << <<name, arg>> >>]

RMul(a, b) ==
    IF a.n = 0 \/ b.n = 0 THEN RInt(0)
    ELSE LET g1 == GCD(Abs(a.n), b.d)
             g2 == GCD(Abs(b.n), a.d)
         IN  [n |-> (a.n \div g1) * (b.n \div g2),
              d |-> (a.d \div g2) * (b.d \div g1),
              t |-> a.t \o b.t]

\* a / k for an integer k > 0
RDivInt(a, k) == RMul(a, RQ(1, k))

(***************************************************************************)
(* Soil-loss kernels (perte08, perte17).                                   *)
(***************************************************************************)

\* for i in range(occ_sol_coeff_c.shape[0]):
\*     if occ_sol[pos] == occ_sol_coeff_c[i, 0]: C[pos] = occ_sol_coeff_c[i, 1]
RECURSIVE CoefCLoop(_, _, _)
CoefCLoop(c, tab, k) ==
    IF k > Len(tab) THEN c
    ELSE CoefCLoop(IF c.occ_sol = tab[k][1] THEN [c EXCEPT !.C = tab[k][2]] ELSE c,
                   tab, k + 1)

\* the five conditions of the if / elif chain on (tx_argile, tx_sable)
KCond(b, argile, sable) ==
    CASE b = 1 -> argile < 18 /\ sable > 65
      [] b = 2 -> argile > 18 /\ argile < 35 /\ sable > 65
      [] b = 3 -> argile < 35 /\ sable < 15
      [] b = 4 -> argile > 35 /\ argile < 60
      [] b = 5 -> argile > 60

\* the value assigned to K[pos] in branch b
KCoef(b) ==
    CASE b = 1 -> RQ(115, 10000)
      [] b = 2 -> RQ(311, 10000)
      [] b = 3 -> RQ(438, 10000)
      [] b = 4 -> RQ(339, 10000)
      [] b = 5 -> RQ(170, 10000)

\* a chain with a final else that resets K[pos]
KChainElse(c) ==
    IF KCond(1, c.tx_argile, c.tx_sable) THEN KCoef(1)
    ELSE IF KCond(2, c.tx_argile, c.tx_sable) THEN KCoef(2)
    ELSE IF KCond(3, c.tx_argile, c.tx_sable) THEN KCoef(3)
    ELSE IF KCond(4, c.tx_argile, c.tx_sable) THEN KCoef(4)
    ELSE IF KCond(5, c.tx_argile, c.tx_sable) THEN KCoef(5)
    ELSE RInt(0)

\* if / elif / elif / elif / elif, no else: K[pos] after the chain
KChain(c) ==
    IF KCond(1, c.tx_argile, c.tx_sable) THEN KCoef(1)
    ELSE IF KCond(2, c.tx_argile, c.tx_sable) THEN KCoef(2)
    ELSE IF KCond(3, c.tx_argile, c.tx_sable) THEN KCoef(3)
    ELSE IF KCond(4, c.tx_argile, c.tx_sable) THEN KCoef(4)
    ELSE IF KCond(5, c.tx_argile, c.tx_sable) THEN KCoef(5)
    ELSE c.K

\* perte17: LS[pos] = (0.065 + 0.0456 p + 0.006541 p^2) * 1.063589, kept as
\* a term of p
LS17(pente) == RTerm("LS", pente)

\* perte17: result_A, result_kg_px, result_epaisseur
Resultats17(c) ==
    LET A == RMul(RMul(RMul(RInt(c.R), c.K), c.C), c.LS)
        kg == RMul(RMul(A, RQ(25, 10000)), RInt(1000))
    IN  [c EXCEPT !.result_A = A,
                  !.result_kg_px = kg,
                  !.result_epaisseur = RInt(c.pente)]

\* perte17: if pente[pos] == ndv: ... = -1
NoData17(c, nodata) ==
    IF c.pente = nodata
    THEN [c EXCEPT !.LS = RInt(-1),
                   !.pente = -1,
                   !.result_A = RInt(-1),
                   !.result_kg_px = RInt(-1),
                   !.result_epaisseur = RInt(-1)]
    ELSE c

my_kernel17(c0, tC, nodata) ==
    LET c1 == CoefCLoop(c0, tC, 1)
        c2 == [c1 EXCEPT !.LS = LS17(c1.pente)]
        c3 == [c2 EXCEPT !.K = KChain(c2)]
        c4 == Resultats17(c3)
    IN  NoData17(c4, nodata)

\* perte08: L[pos] = 1.4 * pow(5/22.13, 0.4); S[pos] = pow(sin(p)/0.0896, 1.3)
L08 == RMul(RQ(14, 10), RTerm("pow(5/22.13,0.4)", 0))

S08(pente) == RTerm("S", pente)

\* perte08: result_A, result_kg_px, result_epaisseur
Resultats08(c) ==
    LET A == RMul(RMul(RMul(RMul(RInt(c.R), c.K), c.C), c.L), c.S)
        kg == RMul(RMul(A, RQ(25, 10000)), RInt(1000))
    IN  [c EXCEPT !.result_A = A,
                  !.result_kg_px = kg,
                  !.result_epaisseur = RDivInt(RDivInt(kg, 1250), 25)]

my_kernel08(c0, tC) ==
    LET c1 == CoefCLoop(c0, tC, 1)
        c2 == [c1 EXCEPT !.L = L08, !.S = S08(c1.pente)]
        c3 == [c2 EXCEPT !.K = KChain(c2)]
    IN  Resultats08(c3)

(***************************************************************************)
(* The scripts, their arrays and their outputs.                            *)
(***************************************************************************)
CrusScripts == {"crus11", "copie15", "crus15"}
PerteScripts == {"perte08", "perte17"}
Scripts == CrusScripts \cup PerteScripts

\* crus11 and perte08 have no chunk test: one launch on the whole array
ChunkingScripts == {"copie15", "crus15", "perte17"}

\* the land-cover array of each scenario, in the order of the script
OccSolNames(s) ==
    IF s \in {"copie15", "crus15"}
    THEN <<"dataOccSol_5a", "dataOccSol_2021", "dataOccSol_modif">>
    ELSE IF s = "crus11" THEN <<"dataOccSol">>
    ELSE <<"h_occ_sol">>

NbScen(s) == Len(OccSolNames(s))

\* one suffix for every scenario
SuffixOfFirst(s, sc) ==
    IF s = "crus15" THEN "_5a.tif"
    ELSE IF s = "copie15" THEN "5a.tif"
    ELSE ""

\* the suffix of the output files of each scenario
Suffix(s, sc) ==
    IF s = "crus15" THEN <<"_5a.tif", "_2021.tif", "_modif.tif">>[sc]
    ELSE IF s = "copie15" THEN <<"5a.tif", "2021.tif", "modif.tif">>[sc]
    ELSE ""

\* output file (base name, declared no-data value), in the order of writing
OutFiles(s) ==
    CASE s = "crus15" ->
           << [out |-> "raster_result", base |-> "ProdRuiss_Bat_Pent", nodata |-> -1],
              [out |-> "raster_result_sp", base |-> "ProdRuiss_Bat_ssPent", nodata |-> -1],
              [out |-> "raster_result_ssbatt", base |-> "ProdRuiss_ssBat_Pent", nodata |-> -1],
              [out |-> "raster_result_ssbatt_sp", base |-> "ProdRuiss_ssBat_ssPent", nodata |-> -1],
              [out |-> "raster_diff", base |-> "Differences", nodata |-> 91111] >>
      [] s = "copie15" ->
           << [out |-> "raster_result", base |-> "SensibiliteProdRuiss_Bat2.tif", nodata |-> -1],
              [out |-> "raster_diff", base |-> "Difference_Bat_SsBat2.tif", nodata |-> -1] >>
      [] s = "crus11" ->
           << [out |-> "raster_result", base |-> "SensibiliteProdRuiss_Bat2_sansPente.tif", nodata |-> -1],
              [out |-> "raster_diff", base |-> "Difference_Bat_SsBat2_sansPente.tif", nodata |-> -1] >>
      [] s \in PerteScripts ->
           << [out |-> "raster_result_A", base |-> "erodibilite_tonne_ha.tif", nodata |-> -1],
              [out |-> "raster_result_kg_px", base |-> "erodibilite_kg_pixel.tif", nodata |-> -1],
              [out |-> "raster_result_epaisseur", base |-> "erodibilite_epaisseur.tif", nodata |-> -1] >>

OutNames(s) == {OutFiles(s)[k].out : k \in 1..Len(OutFiles(s))}

\* which array of the kernel each result list / output raster receives
OutOfCell(s, c) ==
    CASE s = "crus15" ->
           [raster_result |-> c.dataResult,
            raster_result_sp |-> c.dataResult_sp,
            raster_result_ssbatt |-> c.data_Ssbatt,
            raster_result_ssbatt_sp |-> c.data_Ssbatt_sp,
            raster_diff |-> c.dataDiff]
      [] s \in {"crus11", "copie15"} ->
           [raster_result |-> c.dataResult, raster_diff |-> c.dataDiff]
      [] s \in PerteScripts ->
           [raster_result_A |-> c.result_A,
            raster_result_kg_px |-> c.result_kg_px,
            raster_result_epaisseur |-> c.result_epaisseur]

\* order in which main() of perte17 reads the rasters; every read overwrites
\* ds, dim1, dim2 and ndv
ReadOrder17 == <<"R", "pente", "tx_argile", "tx_limon", "tx_sable", "occ_sol">>

LastNdv(decl) == decl[ReadOrder17[Len(ReadOrder17)]]

\* nb = dimtot // dimmax
NbChunks(dimtot, m) == dimtot \div m

(***************************************************************************)
(* numpy.array_split(ary, sections) on a 1-D array of length n: the first   *)
(* n % sections sub-arrays have n // sections + 1 elements, the others      *)
(* n // sections; the sub-arrays are the views ary[st:end] between          *)
(* consecutive cumulated sizes.                                             *)
(***************************************************************************)
\* a split that forgets the n % sections longer sections
SectionSizeEven(n, sections, j) == n \div sections

SectionSize(n, sections, j) ==
    IF j <= n % sections THEN (n \div sections) + 1 ELSE n \div sections

RECURSIVE DivPoint(_, _, _)
DivPoint(n, sections, j) ==
    IF j = 0 THEN 0
    ELSE DivPoint(n, sections, j - 1) + SectionSize(n, sections, j)

array_split(name, n, sections) ==
    [j \in 1..sections |->
        [base |-> name,
         lo |-> DivPoint(n, sections, j - 1),
         hi |-> DivPoint(n, sections, j)]]

\* every host array has the same number of elements
SameLengths(h) == \A f, g \in DOMAIN h : Len(h[f]) = Len(h[g])

\* the values a view shows
ViewOf(h, v) == Slice(h[v.base], v.lo, v.hi)

\* a column-major reshape
ReshapeColumnMajor(flat, d1, d2) ==
    [r \in 1..d1 |-> [c \in 1..d2 |-> flat[(c - 1) * d1 + r]]]

\* ndarray.reshape(d1, d2) of a flat array (row-major)
Reshape(flat, d1, d2) ==
    [r \in 1..d1 |-> [c \in 1..d2 |-> flat[(r - 1) * d2 + c]]]

\* blockspergrid = math.ceil(n / threadsperblock), threadsperblock = 1024
Launch(n) == [n |-> n, threads |-> CeilDiv(n, 1024) * 1024]

(***************************************************************************)
(* Inputs: the content of the table files and of the rasters.              *)
(***************************************************************************)
TabCorCodChoices == { << <<1, 0>>, <<2, 10>>, <<3, 40>>, <<4, 80>> >> }

TabCoefBatChoices == { << <<1, 100>>, <<2, 105>>, <<3, 50>> >> }

OccSolCoeffCChoices == { << <<1, RQ(1, 2)>>, <<2, RQ(25, 100)>> >> }

NdvVals == {-9999, 255}

\* values of one pixel of the CRUS rasters
PenteVals == {1, 2, 3, 4}
PermeaVals == {-3, 0, 20, 32, 50, 62}
OccSeq == <<-1, 1, 22, 32, 42, 55, 90>>
BattVals == {1, 2, 3, 7}

OccVals == {OccSeq[k] : k \in 1..Len(OccSeq)}

\* the land cover of the next scenario at a pixel whose land cover is o
NextOcc(o) ==
    LET k == CHOOSE j \in 1..Len(OccSeq) : OccSeq[j] = o
    IN  OccSeq[(k % Len(OccSeq)) + 1]

CrusPixels ==
    [dataPentes : PenteVals, dataPermea : PermeaVals,
     dataOccSol : OccVals, dataBattance : BattVals]

CrusSamples ==
    << [dataPentes |-> 2, dataPermea |-> 50, dataOccSol |-> 42, dataBattance |-> 1],
       [dataPentes |-> 4, dataPermea |-> 20, dataOccSol |-> 55, dataBattance |-> 2],
       [dataPentes |-> 1, dataPermea |-> -3, dataOccSol |-> 1, dataBattance |-> 7] >>

\* values of one pixel of the soil-loss rasters
PertePixels ==
    [R : {0, 2}, pente : {-9999, 0, 5},
     tx_argile : {10, 18, 25, 35, 50, 60, 70}, tx_limon : {0},
     tx_sable : {10, 15, 40, 65, 80}, occ_sol : {1, 2, 9}]

PerteSamples ==
    << [R |-> 2, pente |-> 5, tx_argile |-> 10, tx_limon |-> 0, tx_sable |-> 80, occ_sol |-> 1],
       [R |-> 2, pente |-> 0, tx_argile |-> 25, tx_limon |-> 0, tx_sable |-> 40, occ_sol |-> 2],
       [R |-> 2, pente |-> -9999, tx_argile |-> 50, tx_limon |-> 0, tx_sable |-> 10, occ_sol |-> 9] >>

\* what an uninitialised device array (cuda.device_array_like) may hold
Garbage == {RInt(0), RQ(1, 2)}

\* a flat array of T pixels repeating the samples, starting at sample sh + 1
Pattern(samples, T, sh) ==
    [k \in 1..T |-> samples[((k - 1 + sh) % Len(samples)) + 1]]

\* the pixel sequences the model runs on: every 1 x 1 raster, and the
\* d1 x d2 rasters that repeat the samples
PixelSeqs(s, d1, d2) ==
    LET samples == IF s \in CrusScripts THEN CrusSamples ELSE PerteSamples
        pixels == IF s \in CrusScripts THEN CrusPixels ELSE PertePixels
    IN  {Pattern(samples, d1 * d2, sh) : sh \in 0..(Len(samples) - 1)}
        \cup (IF d1 * d2 = 1 THEN {<<px>> : px \in pixels} ELSE {})

\* the host arrays after reading and flattening (raster.reshape(dim1*dim2))
HostOf(s, px) ==
    LET col(f) == [k \in 1..Len(px) |-> px[k][f]]
    IN  CASE s \in {"copie15", "crus15"} ->
               [dataPentes |-> col("dataPentes"),
                dataPermea |-> col("dataPermea"),
                dataOccSol_5a |-> col("dataOccSol"),
                dataOccSol_2021 |-> [k \in 1..Len(px) |-> NextOcc(px[k].dataOccSol)],
                dataOccSol_modif |-> [k \in 1..Len(px) |-> NextOcc(NextOcc(px[k].dataOccSol))],
                dataBattance |-> col("dataBattance")]
          [] s = "crus11" ->
               [dataPentes |-> col("dataPentes"),
                dataPermea |-> col("dataPermea"),
                dataOccSol |-> col("dataOccSol"),
                dataBattance |-> col("dataBattance")]
          [] s \in PerteScripts ->
               [h_R |-> col("R"),
                h_pente |-> col("pente"),
                h_tx_argile |-> col("tx_argile"),
                h_tx_limon |-> col("tx_limon"),
                h_tx_sable |-> col("tx_sable"),
                h_occ_sol |-> col("occ_sol")]

NoNdv == [r \in {ReadOrder17[k] : k \in 1..Len(ReadOrder17)} |-> -9999]

\* Spec starts after the alignment: its variables are not used
NoAlignment ==
    /\ tableFiles = <<>>
    /\ geo = <<>>
    /\ disk = <<>>
    /\ faulty = {}
    /\ thr = <<>>
    /\ joined = 0
    /\ box = <<>>
    /\ warps = 0
    /\ opened = {}
    /\ err = "none"

Init ==
    /\ script \in Scripts
    /\ dim1 \in 1..MaxDim
    /\ dim2 \in 1..MaxDim
    /\ dimmax \in IF script \in ChunkingScripts /\ dim1 * dim2 > 1
                  THEN {m \in 1..MaxDimmax :
                            NbChunks(dim1 * dim2, m) <= MaxChunks}
                  ELSE {MaxDimmax}
    /\ tabCorCod \in TabCorCodChoices
    /\ tabCoefBat \in TabCoefBatChoices
    /\ occ_sol_coeff_c \in OccSolCoeffCChoices
    /\ ndvDecl \in IF script = "perte17"
                   THEN {[NoNdv EXCEPT !["pente"] = a, !["occ_sol"] = b] :
                            a \in NdvVals, b \in NdvVals}
                   ELSE {NoNdv}
    /\ ndv = IF script = "perte17" THEN LastNdv(ndvDecl) ELSE 0
    /\ \E px \in PixelSeqs(script, dim1, dim2) : host0 = HostOf(script, px)
    /\ host = host0
    /\ hostEval = host0
    /\ scen = 1
    /\ pc = "eval"
    /\ nb = 0
    /\ i = 0
    /\ lst = <<>>
    /\ res_lst = <<>>
    /\ raster = <<>>
    /\ dispatch = <<>>
    /\ device = <<>>
    /\ written = <<>>
    /\ NoAlignment

(***************************************************************************)
(* Host code around a kernel launch.                                       *)
(***************************************************************************)

\* work arrays filled with zeros
CrusCellsZeroFilled(pentes, permea, occsol, battance) ==
    [k \in 1..Len(occsol) |->
        [dataPentes |-> pentes[k], dataPermea |-> permea[k],
         dataOccSol |-> occsol[k], dataBattance |-> battance[k],
         dataResult |-> 0, dataResult_sp |-> 0,
         data_Ssbatt_sp |-> 0, dataDiff |-> 0,
         data_Ssbatt |-> 0]]

\* CRUS: the work arrays are copies of the land-cover array
\* (dataResult = dataOccSol.copy(), ..., data_Ssbatt = dataResult.copy())
CrusCells(pentes, permea, occsol, battance) ==
    [k \in 1..Len(occsol) |->
        [dataPentes |-> pentes[k], dataPermea |-> permea[k],
         dataOccSol |-> occsol[k], dataBattance |-> battance[k],
         dataResult |-> occsol[k], dataResult_sp |-> occsol[k],
         data_Ssbatt_sp |-> occsol[k], dataDiff |-> occsol[k],
         data_Ssbatt |-> occsol[k]]]

\* soil loss: cuda.to_device copies of the inputs, and C, K, LS (L, S) and
\* the result arrays allocated with cuda.device_array_like, not initialised
PerteCells(pente, R, argile, limon, sable, occ, gK, gC) ==
    [k \in 1..Len(occ) |->
        [pente |-> pente[k], R |-> R[k], tx_argile |-> argile[k],
         tx_limon |-> limon[k], tx_sable |-> sable[k], occ_sol |-> occ[k],
         C |-> gC, K |-> gK, LS |-> gK, L |-> gK, S |-> gK,
         result_A |-> gK, result_epaisseur |-> gK, result_kg_px |-> gK]]

\* my_kernel[blockspergrid, threadsperblock](...) of the running script
KernelWith(c, tCor, tBat, tC) ==
    CASE script = "crus15" -> my_kernel15(c, tCor, tBat)
      [] script = "copie15" -> my_kernelCopie(c, tCor, tBat)
      [] script = "crus11" -> my_kernel11(c, tCor, tBat)
      [] script = "perte17" -> my_kernel17(c, tC, ndv)
      [] script = "perte08" -> my_kernel08(c, tC)

KernelOf(c) == KernelWith(c, tabCorCod, tabCoefBat, occ_sol_coeff_c)

RunKernel(cells) == [k \in DOMAIN cells |-> KernelOf(cells[k])]

GarbageOf(s) == IF s \in PerteScripts THEN Garbage ELSE {RInt(0)}

\* CRUS kernels get host arrays: numba copies every array back to the host
\* array (or view) it was given, so the reclassified slopes land in dataPentes
CopyBack(h, lo, cells) ==
    IF script \in CrusScripts
    THEN [h EXCEPT !.dataPentes =
            [k \in DOMAIN @ |->
                IF k > lo /\ k <= lo + Len(cells)
                THEN cells[k - lo].dataPentes ELSE @[k]]]
    ELSE h

\* one result array per output, from the cells after the launch
ResultArrays(cells) ==
    [o \in OutNames(script) |->
        [k \in DOMAIN cells |-> OutOfCell(script, cells[k])[o]]]

\* the arrays of the whole raster given to the launch of the else branch
WholeCells(h, gK, gC) ==
    IF script \in CrusScripts
    THEN CrusCells(h.dataPentes, h.dataPermea,
                   h[OccSolNames(script)[scen]], h.dataBattance)
    ELSE PerteCells(h.h_pente, h.h_R, h.h_tx_argile, h.h_tx_limon,
                    h.h_tx_sable, h.h_occ_sol, gK, gC)

\* the arrays of chunk j (dataPentes_p = dataPentes_lst[i], ...)
ChunkCells(j, gK, gC) ==
    IF script \in CrusScripts
    THEN CrusCells(ViewOf(host, lst.dataPentes_lst[j]),
                   ViewOf(host, lst.dataPermea_lst[j]),
                   ViewOf(host, lst.dataOccSol_lst[j]),
                   ViewOf(host, lst.dataBattance_lst[j]))
    ELSE PerteCells(ViewOf(host, lst.dataPente_lst[j]),
                    ViewOf(host, lst.dataR_lst[j]),
                    ViewOf(host, lst.dataTxArgile_lst[j]),
                    ViewOf(host, lst.dataTxLimon_lst[j]),
                    ViewOf(host, lst.dataTxSable_lst[j]),
                    ViewOf(host, lst.dataOccSol_lst[j]), gK, gC)

\* the np.array_split calls of the if branch
SplitAll(h, n) ==
    IF script \in CrusScripts
    THEN [dataPentes_lst |-> array_split("dataPentes", Len(h.dataPentes), n),
          dataPermea_lst |-> array_split("dataPermea", Len(h.dataPermea), n),
          dataOccSol_lst |-> array_split(OccSolNames(script)[scen],
                                         Len(h[OccSolNames(script)[scen]]), n),
          dataBattance_lst |-> array_split("dataBattance", Len(h.dataBattance), n)]
    ELSE [dataR_lst |-> array_split("h_R", Len(h.h_R), n),
          dataPente_lst |-> array_split("h_pente", Len(h.h_pente), n),
          dataTxArgile_lst |-> array_split("h_tx_argile", Len(h.h_tx_argile), n),
          dataTxLimon_lst |-> array_split("h_tx_limon", Len(h.h_tx_limon), n),
          dataTxSable_lst |-> array_split("h_tx_sable", Len(h.h_tx_sable), n),
          dataOccSol_lst |-> array_split("h_occ_sol", Len(h.h_occ_sol), n)]

(***************************************************************************)
(* Actions.                                                                *)
(***************************************************************************)

\* if dimtot > dimmax: nb = dimtot // dimmax, the array_split calls, the
\* empty result lists
Split ==
    /\ pc = "eval"
    /\ script \in ChunkingScripts
    /\ dim1 * dim2 > dimmax
    /\ SameLengths(host)
    /\ nb' = NbChunks(dim1 * dim2, dimmax)
    /\ lst' = SplitAll(host, nb')
    /\ res_lst' = [o \in OutNames(script) |-> <<>>]
    /\ i' = 0
    /\ pc' = "loop"
    /\ UNCHANGED <<script, dimmax, dim1, dim2, ndvDecl, ndv, tabCorCod,
                   tabCoefBat, occ_sol_coeff_c, host, host0, hostEval, scen, raster,
                   dispatch, device, written>>
    /\ UNCHANGED alignVars

\* one iteration of `for i in range(nb)`: the launch on chunk i and the
\* appends to the result lists
ChunkIter ==
    /\ pc = "loop"
    /\ i < nb
    /\ \E gK \in GarbageOf(script), gC \in GarbageOf(script) :
          LET cells0 == ChunkCells(i + 1, gK, gC)
              cells == RunKernel(cells0)
              out == ResultArrays(cells)
          IN  /\ device' = [in |-> cells0, out |-> cells]
              /\ dispatch' = Append(dispatch, Launch(Len(cells0)))
              /\ host' = CopyBack(host, lst.dataOccSol_lst[i + 1].lo, cells)
              /\ res_lst' = [o \in OutNames(script) |-> Append(res_lst[o], out[o])]
    /\ i' = i + 1
    /\ UNCHANGED <<script, dimmax, dim1, dim2, ndvDecl, ndv, tabCorCod,
                   tabCoefBat, occ_sol_coeff_c, host0, hostEval, scen, pc, nb, lst,
                   raster, written>>
    /\ UNCHANGED alignVars

\* after the loop: np.concatenate(tuple(..._lst)) and reshape(dim1, dim2)
Concatenate ==
    /\ pc = "loop"
    /\ i = nb
    /\ raster' = [o \in OutNames(script) |->
                    Reshape(Concat(res_lst[o]), dim1, dim2)]
    /\ pc' = "write"
    /\ UNCHANGED <<script, dimmax, dim1, dim2, ndvDecl, ndv, tabCorCod,
                   tabCoefBat, occ_sol_coeff_c, host, host0, hostEval, scen, nb, i, lst,
                   res_lst, dispatch, device, written>>
    /\ UNCHANGED alignVars

\* the else branch (the only path of crus11 and perte08): one launch on the
\* whole arrays, then reshape(dim1, dim2)
SinglePass ==
    /\ pc = "eval"
    /\ script \notin ChunkingScripts \/ ~(dim1 * dim2 > dimmax)
    /\ SameLengths(host)
    /\ \E gK \in GarbageOf(script), gC \in GarbageOf(script) :
          LET cells0 == WholeCells(host, gK, gC)
              cells == RunKernel(cells0)
              out == ResultArrays(cells)
          IN  /\ device' = [in |-> cells0, out |-> cells]
              /\ dispatch' = Append(dispatch, Launch(Len(cells0)))
              /\ host' = CopyBack(host, 0, cells)
              /\ raster' = [o \in OutNames(script) |-> Reshape(out[o], dim1, dim2)]
    /\ nb' = 0
    /\ pc' = "write"
    /\ UNCHANGED <<script, dimmax, dim1, dim2, ndvDecl, ndv, tabCorCod,
                   tabCoefBat, occ_sol_coeff_c, host0, hostEval, scen, i, lst, res_lst,
                   written>>
    /\ UNCHANGED alignVars

\* driver.Create(...), WriteArray, SetNoDataValue for every output of the
\* scenario, then the next scenario
WriteOutputs ==
    /\ pc = "write"
    /\ written' = written \o
          [k \in 1..Len(OutFiles(script)) |->
              [file |-> <<OutFiles(script)[k].base, Suffix(script, scen)>>,
               nodata |-> OutFiles(script)[k].nodata,
               out |-> OutFiles(script)[k].out,
               scen |-> scen]]
    /\ IF scen < NbScen(script)
       THEN scen' = scen + 1 /\ pc' = "eval"
       ELSE scen' = scen /\ pc' = "done"
    /\ hostEval' = host
    /\ UNCHANGED <<script, dimmax, dim1, dim2, ndvDecl, ndv, tabCorCod,
                   tabCoefBat, occ_sol_coeff_c, host, host0, nb, i, lst,
                   res_lst, raster, dispatch, device>>
    /\ UNCHANGED alignVars

\* the number of elements of the arrays of the launch that comes next
NextLaunchSize ==
    IF pc = "loop"
    THEN lst.dataOccSol_lst[i + 1].hi - lst.dataOccSol_lst[i + 1].lo
    ELSE Len(host[IF script \in CrusScripts THEN OccSolNames(script)[scen]
                  ELSE "h_occ_sol"])

\* the kernels index their arrays with pos = cuda.grid(1) without comparing
\* pos with the size: the threads past the end of the arrays read and write
\* memory outside them, and the driver may end the launch with an error
LaunchFault ==
    /\ \/ pc = "loop" /\ i < nb
       \/ pc = "eval" /\ (script \notin ChunkingScripts \/ ~(dim1 * dim2 > dimmax))
    /\ Launch(NextLaunchSize).threads > NextLaunchSize
    /\ pc' = "crash"
    /\ err' = "CudaAPIError"
    /\ UNCHANGED <<script, dimmax, dim1, dim2, ndvDecl, ndv, tabCorCod,
                   tabCoefBat, occ_sol_coeff_c, host, host0, hostEval, scen, nb,
                   i, lst, res_lst, raster, dispatch, device, written>>
    /\ UNCHANGED <<tableFiles, geo, disk, faulty, thr, joined, box, warps, opened>>

Next ==
    \/ Split
    \/ ChunkIter
    \/ Concatenate
    \/ SinglePass
    \/ LaunchFault
    \/ WriteOutputs

Spec == Init /\ [][Next]_vars

(***************************************************************************)
(* The correspondence tables: text files of lines "code=value".  A line is *)
(* a sequence of characters.                                               *)
(***************************************************************************)
Digits == <<"0", "1", "2", "3", "4", "5", "6", "7", "8", "9">>

IsDigit(ch) == \E k \in 1..Len(Digits) : Digits[k] = ch

DigitVal(ch) == (CHOOSE k \in 1..Len(Digits) : Digits[k] = ch) - 1

\* ligne.split("=") : the fields between the "=" characters
RECURSIVE SplitEq(_, _, _)
SplitEq(line, k, cur) ==
    IF k > Len(line) THEN <<cur>>
    ELSE IF line[k] = "=" THEN <<cur>> \o SplitEq(line, k + 1, <<>>)
    ELSE SplitEq(line, k + 1, Append(cur, line[k]))

\* int(field) succeeds on a non-empty string of digits
IsIntLiteral(f) == Len(f) > 0 /\ \A k \in 1..Len(f) : IsDigit(f[k])

RECURSIVE DigitsValue(_, _, _)
DigitsValue(f, k, acc) ==
    IF k > Len(f) THEN acc
    ELSE DigitsValue(f, k + 1, IF IsDigit(f[k]) THEN 10 * acc + DigitVal(f[k]) ELSE acc)

IntOf(f) == DigitsValue(f, 1, 0)

\* float(field) succeeds on digits with at most one "." and at least one digit
IsFloatLiteral(f) ==
    /\ \A k \in 1..Len(f) : IsDigit(f[k]) \/ f[k] = "."
    /\ Cardinality({k \in 1..Len(f) : f[k] = "."}) <= 1
    /\ \E k \in 1..Len(f) : IsDigit(f[k])

RECURSIVE Pow10(_)
Pow10(n) == IF n = 0 THEN 1 ELSE 10 * Pow10(n - 1)

\* the value of a float literal, as an exact fraction
FloatOf(f) ==
    LET dots == {k \in 1..Len(f) : f[k] = "."}
        decimals == IF dots = {} THEN 0 ELSE Len(f) - (CHOOSE k \in dots : TRUE)
    IN  RQ(DigitsValue(f, 1, 0), Pow10(decimals))

\* a float that is a whole number compares equal to that integer code
KeyOf(q) == IF q.d = 1 THEN q.n ELSE q

\* one pass of `for ligne in mat`: the rows appended so far and the exception
\* raised by the first line that cannot be converted
RECURSIVE ParseTable(_, _, _, _)
ParseTable(lines, k, isFloat, rows) ==
    IF k > Len(lines) THEN [err |-> "none", tab |-> rows]
    ELSE LET lignee == SplitEq(lines[k], 1, <<>>)
             good(f) == IF isFloat THEN IsFloatLiteral(f) ELSE IsIntLiteral(f)
         IN  IF ~good(lignee[1]) THEN [err |-> "ValueError", tab |-> rows]
             ELSE IF Len(lignee) < 2 THEN [err |-> "IndexError", tab |-> rows]
             ELSE IF ~good(lignee[2]) THEN [err |-> "ValueError", tab |-> rows]
             ELSE ParseTable(lines, k + 1, isFloat,
                     Append(rows,
                        IF isFloat
                        THEN <<KeyOf(FloatOf(lignee[1])), FloatOf(lignee[2])>>
                        ELSE <<IntOf(lignee[1]), IntOf(lignee[2])>>))

\* the scripts that align their inputs
AlignScripts == {"crus15", "copie15", "perte17"}

\* the table files each script opens, in order
TableNames(s) ==
    IF s = "perte17" THEN <<"correspondance_coefC_occ_sol.txt">>
    ELSE <<"code_reclassPentes.txt", "codes_battance.txt">>

\* well-formed files
GoodTableFile(name) ==
    CASE name = "code_reclassPentes.txt" ->
           << <<"1", "=", "0">>, <<"2", "=", "1", "0">>,
              <<"3", "=", "4", "0">>, <<"4", "=", "8", "0">> >>
      [] name = "codes_battance.txt" ->
           << <<"1", "=", "1", "0", "0">>, <<"2", "=", "1", "0", "5">>,
              <<"3", "=", "5", "0">> >>
      [] name = "correspondance_coefC_occ_sol.txt" ->
           << <<"1", "=", "0", ".", "5">>, <<"2", "=", "0", ".", "2", "5">> >>

\* lines that may stand in a file: without "=", with a field that is not a
\* number, empty, with a decimal value, with a third field, with a key that
\* is already in the file, with a value that is the key of a later line,
\* with a key that is the value of a later line
OddLines ==
    { <<"1">>, <<"x", "=", "0">>, <<"1", "=", "x">>, <<>>, <<"1", "=">>,
      <<"1", "=", "0", ".", "5">>, <<"1", "=", "0", "=", "5">>,
      <<"1", "=", "0", "=", "x">>, <<"1", "=", "7">>,
      <<"2", "=", "4">>, <<"1", "0", "=", "8", "0">> }

\* the file contents explored: the well-formed files, and the same with one
\* line replaced
GoodTables(s) ==
    [n \in {TableNames(s)[k] : k \in 1..Len(TableNames(s))} |-> GoodTableFile(n)]

TableFileChoices(s) ==
    {GoodTables(s)} \cup
    {[GoodTables(s) EXCEPT ![n] = [@ EXCEPT ![k] = l]] :
        n \in DOMAIN GoodTables(s), k \in {1, 2}, l \in OddLines}

\* the first exception raised while the tables are read, file after file
RECURSIVE LoadError(_, _, _)
LoadError(s, files, k) ==
    IF k > Len(TableNames(s)) THEN "none"
    ELSE LET r == ParseTable(files[TableNames(s)[k]], 1, s = "perte17", <<>>)
         IN  IF r.err # "none" THEN r.err ELSE LoadError(s, files, k + 1)

\* the table a file is converted to
TableOf(s, files, name) == ParseTable(files[name], 1, s = "perte17", <<>>).tab

\* the with open(...) blocks at the start of the script
LoadTables ==
    /\ pc = "tables"
    /\ LET e == LoadError(script, tableFiles, 1)
       IN  IF e # "none"
           THEN /\ pc' = "crash"
                /\ err' = e
                /\ UNCHANGED <<tabCorCod, tabCoefBat, occ_sol_coeff_c>>
           ELSE /\ pc' = "dico"
                /\ err' = err
                /\ IF script = "perte17"
                   THEN /\ occ_sol_coeff_c' =
                             TableOf(script, tableFiles, "correspondance_coefC_occ_sol.txt")
                        /\ UNCHANGED <<tabCorCod, tabCoefBat>>
                   ELSE /\ tabCorCod' = TableOf(script, tableFiles, "code_reclassPentes.txt")
                        /\ tabCoefBat' = TableOf(script, tableFiles, "codes_battance.txt")
                        /\ UNCHANGED occ_sol_coeff_c
    /\ UNCHANGED <<script, dimmax, dim1, dim2, ndvDecl, ndv, host, host0,
                   hostEval, scen, nb, i, lst, res_lst, raster, dispatch,
                   device, written, tableFiles, geo, disk, faulty, thr, joined,
                   box, warps, opened>>


(***************************************************************************)
(* The alignment of the input rasters (crus15, copie15, perte17).          *)
(***************************************************************************)

\* the input rasters, in the order of the dico literal
RasterNames(s) ==
    IF s = "perte17" THEN ReadOrder17
    ELSE <<"pentes", "permea", "os5ans", "os2021", "os_modif", "battance">>

RasterSet(s) == {RasterNames(s)[k] : k \in 1..Len(RasterNames(s))}

\* the keys written in the dico literal, entry by entry
DicoKeys(s) ==
    IF s = "perte17"
    THEN <<"R", "occsol", "permea", "occsol", "occsol", "occsol">>
    ELSE <<"pente", "permea", "occsol", "occsol", "occsol", "batt">>

\* xmin, ymax, xmax, ymin, resX, resY of an opened dataset
Extent(ds) ==
    [xmin |-> ds.gt0,
     ymax |-> ds.gt3,
     xmax |-> ds.gt0 + ds.gt1 * ds.RasterXSize,
     ymin |-> ds.gt3 + ds.gt5 * ds.RasterYSize,
     resX |-> ds.gt1,
     resY |-> -ds.gt5]

\* lire_raster(fichier, ...): crus15 and copie15 open fichierRasterBattance
\* whatever the argument
lire_raster(s, g, fichier) ==
    Extent(g[IF s = "perte17" THEN fichier ELSE "battance"])

\* the dict built by the literal: a repeated key keeps the last value
dico(s, g) ==
    [key \in {DicoKeys(s)[k] : k \in 1..Len(DicoKeys(s))} |->
        LET last == CHOOSE k \in 1..Len(DicoKeys(s)) :
                        /\ DicoKeys(s)[k] = key
                        /\ \A m \in (k + 1)..Len(DicoKeys(s)) : DicoKeys(s)[m] # key
        IN  lire_raster(s, g, RasterNames(s)[last])]

DicoValues(s, g) == {dico(s, g)[key] : key \in DOMAIN dico(s, g)}

Max(S) == CHOOSE x \in S : \A y \in S : y <= x

Min(S) == CHOOSE x \in S : \A y \in S : x <= y

\* xmin, ymin, xmax, ymax, resX, resY computed from dico.values()
Emprise(s, g) ==
    LET v == DicoValues(s, g)
    IN  [xmin |-> Max({d.xmin : d \in v}),
         ymin |-> Max({d.ymin : d \in v}),
         xmax |-> Min({d.xmax : d \in v}),
         ymax |-> Min({d.ymax : d \in v}),
         resX |-> Max({d.resX : d \in v}),
         resY |-> Max({d.resY : d \in v})]

\* perte17: condition_non_decoupage
condition_non_decoupage(s, g) ==
    LET v == DicoValues(s, g)
        b == Emprise(s, g)
    IN  /\ b.xmin = Min({d.xmin : d \in v})
        /\ b.ymin = Min({d.ymin : d \in v})
        /\ b.xmax = Max({d.xmax : d \in v})
        /\ b.ymax = Max({d.ymax : d \in v})
        /\ b.resX = Max({d.resX : d \in v})
        /\ b.resY = Max({d.resY : d \in v})

\* the warp threads, in the order they are created, started and joined
ThreadNames == <<"t1", "t2a", "t2b", "t2c", "t3", "t4">>

ThreadSet == {ThreadNames[k] : k \in 1..Len(ThreadNames)}

\* the raster each thread warps
ThreadRaster(s, t) ==
    IF s = "perte17"
    THEN CASE t = "t1" -> "R" [] t = "t2a" -> "pente" [] t = "t2b" -> "tx_argile"
           [] t = "t2c" -> "tx_limon" [] t = "t3" -> "tx_sable" [] t = "t4" -> "occ_sol"
    ELSE CASE t = "t1" -> "permea" [] t = "t2a" -> "os5ans" [] t = "t2b" -> "os2021"
           [] t = "t2c" -> "os_modif" [] t = "t3" -> "battance" [] t = "t4" -> "pentes"

\* the file a raster is warped to
WarpedName(s, r) ==
    CASE s = "perte17" -> <<"fichier_raster_", r, ".tif">>
      [] s = "crus15" -> <<r, "repr", ".tif">>
      [] s = "copie15" -> <<r, "repr", "">>

WarpedSet(s) == {WarpedName(s, r) : r \in RasterSet(s)}

\* gdal.Warp: size of the raster it creates for a box and a resolution
WarpSize(b) ==
    [RasterXSize |-> (2 * (b.xmax - b.xmin) + b.resX) \div (2 * b.resX),
     RasterYSize |-> (2 * (b.ymax - b.ymin) + b.resY) \div (2 * b.resY)]

\* the dataset gdal.Warp writes for the box b
Warped(b) ==
    [gt0 |-> b.xmin, gt3 |-> b.ymax, gt1 |-> b.resX, gt5 |-> -b.resY,
     RasterXSize |-> WarpSize(b).RasterXSize,
     RasterYSize |-> WarpSize(b).RasterYSize]

\* gdal.Warp cannot create a raster without pixels
Warpable(b) == b.xmax > b.xmin /\ b.ymax > b.ymin

\* the geometries of the input files explored: a 2 x 2 raster, the same
\* shifted in x, shifted in y, at a coarser resolution, and one that only
\* touches the first
Geoms ==
    { [gt0 |-> 0, gt3 |-> 2, gt1 |-> 1, gt5 |-> -1, RasterXSize |-> 2, RasterYSize |-> 2],
      [gt0 |-> 1, gt3 |-> 2, gt1 |-> 1, gt5 |-> -1, RasterXSize |-> 2, RasterYSize |-> 2],
      [gt0 |-> 0, gt3 |-> 3, gt1 |-> 1, gt5 |-> -1, RasterXSize |-> 2, RasterYSize |-> 2],
      [gt0 |-> 0, gt3 |-> 2, gt1 |-> 2, gt5 |-> -2, RasterXSize |-> 1, RasterYSize |-> 1],
      [gt0 |-> 2, gt3 |-> 2, gt1 |-> 1, gt5 |-> -1, RasterXSize |-> 2, RasterYSize |-> 2] }

Geom0 == [gt0 |-> 0, gt3 |-> 2, gt1 |-> 1, gt5 |-> -1, RasterXSize |-> 2, RasterYSize |-> 2]

\* the rasters whose geometry varies
VaryingRasters(s) ==
    IF s = "perte17" THEN {"R", "pente", "occ_sol"} ELSE {"pentes", "battance"}

GeoChoices(s) ==
    {g \in [RasterSet(s) -> Geoms] :
        \A r \in RasterSet(s) \ VaryingRasters(s) : g[r] = Geom0}

\* the resampled files left by an earlier run, or none
DiskChoices(s) ==
    { [f \in WarpedSet(s) |-> [state |-> "absent", ds |-> Geom0]],
      [f \in WarpedSet(s) |-> [state |-> "stale", ds |-> Geom0]] }

FaultyChoices == { {}, {"t4"} }

NoThreads == [t \in ThreadSet |-> "none"]

InitAlign ==
    /\ script \in AlignScripts
    /\ dimmax \in IF script = "perte17" THEN {MaxDimmax} ELSE {MaxDimmax - 7, MaxDimmax}
    /\ dim1 = 0
    /\ dim2 = 0
    /\ ndvDecl \in IF script = "perte17"
                   THEN {[NoNdv EXCEPT !["occ_sol"] = b] : b \in NdvVals}
                   ELSE {NoNdv}
    /\ ndv = 0
    /\ tabCorCod = <<>>
    /\ tabCoefBat = <<>>
    /\ occ_sol_coeff_c = <<>>
    /\ host = <<>>
    /\ host0 = <<>>
    /\ hostEval = <<>>
    /\ scen = 1
    /\ pc = "tables"
    /\ nb = 0
    /\ i = 0
    /\ lst = <<>>
    /\ res_lst = <<>>
    /\ raster = <<>>
    /\ dispatch = <<>>
    /\ device = <<>>
    /\ written = <<>>
    /\ tableFiles \in TableFileChoices(script)
    /\ IF tableFiles = GoodTables(script)
       THEN /\ geo \in GeoChoices(script)
            /\ disk \in DiskChoices(script)
            /\ faulty \in FaultyChoices
       ELSE /\ geo = [r \in RasterSet(script) |-> Geom0]
            /\ disk \in DiskChoices(script)
            /\ faulty = {}
    /\ thr = NoThreads
    /\ joined = 0
    /\ box = <<>>
    /\ warps = 0
    /\ opened = {}
    /\ err = "none"

\* the variables of the evaluation, untouched before the rasters are read
evalVars == <<script, dimmax, ndvDecl, tabCorCod, tabCoefBat, occ_sol_coeff_c,
              scen, nb, i, lst, res_lst, raster, dispatch, device, written>>

\* dico, the box, the resolution and (perte17) condition_non_decoupage
EmpriseMinimale ==
    /\ pc = "dico"
    /\ box' = Emprise(script, geo)
    /\ pc' = IF script = "perte17" /\ condition_non_decoupage(script, geo)
             THEN "read" ELSE "threads"
    /\ UNCHANGED <<evalVars, dim1, dim2, ndv, host, host0, hostEval, tableFiles,
                   geo, disk, faulty, thr, joined, warps, opened, err>>

\* t1 = threading.Thread(...) ... t4 = threading.Thread(...); in perte17 the
\* arguments of t2c are "fichier_raster_tx_limon.tif" [xmin, ymin, xmax, ymax]
\* (no comma): indexing a str with a list raises TypeError
CreateThreads ==
    /\ pc = "threads"
    /\ IF script = "perte17"
       THEN /\ thr' = [t \in ThreadSet |->
                          IF t \in {"t1", "t2a", "t2b"} THEN "new" ELSE "none"]
            /\ pc' = "crash"
            /\ err' = "TypeError"
       ELSE /\ thr' = [t \in ThreadSet |-> "new"]
            /\ pc' = "start"
            /\ err' = err
    /\ UNCHANGED <<evalVars, dim1, dim2, ndv, host, host0, hostEval, tableFiles,
                   geo, disk, faulty, joined, box, warps, opened>>

\* the next t.start() of the sequence t1.start() ... t4.start()
StartThread ==
    /\ pc = "start"
    /\ LET k == CHOOSE k \in 1..Len(ThreadNames) :
                    /\ thr[ThreadNames[k]] = "new"
                    /\ \A m \in 1..(k - 1) : thr[ThreadNames[m]] # "new"
       IN  /\ thr' = [thr EXCEPT ![ThreadNames[k]] = "started"]
           /\ pc' = IF k = Len(ThreadNames) THEN "join" ELSE "start"
    /\ UNCHANGED <<evalVars, dim1, dim2, ndv, host, host0, hostEval, tableFiles,
                   geo, disk, faulty, joined, box, warps, opened, err>>

\* the body of thread t: gdal.Open, gdal.Warp onto the box.  A failure of
\* gdal.Warp (None returned, or an exception) ends the thread only.
warp_raster(t) ==
    /\ thr[t] = "started"
    /\ warps' = warps + 1
    /\ IF t \notin faulty /\ Warpable(box)
       THEN /\ disk' = [disk EXCEPT ![WarpedName(script, ThreadRaster(script, t))] =
                           [state |-> "fresh", ds |-> Warped(box)]]
            /\ thr' = [thr EXCEPT ![t] = "done"]
       ELSE /\ disk' = disk
            /\ thr' = [thr EXCEPT ![t] = "failed"]
    /\ UNCHANGED <<evalVars, dim1, dim2, ndv, host, host0, hostEval, pc,
                   tableFiles, geo, faulty, joined, box, opened, err>>

\* a join that does not wait
JoinNoWait ==
    /\ pc = "join"
    /\ joined' = joined + 1
    /\ pc' = IF joined' = Len(ThreadNames) THEN "read" ELSE "join"
    /\ UNCHANGED <<evalVars, dim1, dim2, ndv, host, host0, hostEval, tableFiles,
                   geo, disk, faulty, thr, box, warps, opened, err>>

\* the next t.join() of the sequence t1.join() ... t4.join(): it returns when
\* the thread has terminated, however it ended
JoinThread ==
    /\ pc = "join"
    /\ thr[ThreadNames[joined + 1]] \in {"done", "failed"}
    /\ joined' = joined + 1
    /\ pc' = IF joined' = Len(ThreadNames) THEN "read" ELSE "join"
    /\ UNCHANGED <<evalVars, dim1, dim2, ndv, host, host0, hostEval, tableFiles,
                   geo, disk, faulty, thr, box, warps, opened, err>>

\* the raster each host array is read from
RasterOfField(s) ==
    IF s = "perte17"
    THEN [h_R |-> "R", h_pente |-> "pente", h_tx_argile |-> "tx_argile",
          h_tx_limon |-> "tx_limon", h_tx_sable |-> "tx_sable",
          h_occ_sol |-> "occ_sol"]
    ELSE [dataPentes |-> "pentes", dataPermea |-> "permea",
          dataOccSol_5a |-> "os5ans", dataOccSol_2021 |-> "os2021",
          dataOccSol_modif |-> "os_modif", dataBattance |-> "battance"]

\* the order of the gdal.Open(...).ReadAsArray() calls
ReadOrder(s) ==
    IF s = "perte17" THEN ReadOrder17
    ELSE <<"permea", "os5ans", "os2021", "os_modif", "battance", "pentes">>

\* the file each read opens: the input itself in perte17 when nothing was
\* warped, the warped file in crus15 and copie15
FileRead(s, r) == IF s = "perte17" THEN <<r>> ELSE WarpedName(s, r)

\* the dataset behind a file that is read, and where its pixels come from
DatasetRead(s, g, d, r) ==
    IF s = "perte17" THEN [state |-> "input", ds |-> g[r]] ELSE d[WarpedName(s, r)]

\* the pixels of a file: a file left by an earlier run holds other values
PixelsOf(s, file) ==
    Pattern(IF s \in CrusScripts THEN CrusSamples ELSE PerteSamples,
            file.ds.RasterXSize * file.ds.RasterYSize,
            IF file.state = "stale" THEN 1 ELSE 0)

\* the flat host arrays, each from its own file
HostRead(s, g, d) ==
    [f \in DOMAIN RasterOfField(s) |->
        HostOf(s, PixelsOf(s, DatasetRead(s, g, d, RasterOfField(s)[f])))[f]]

\* the rasters opened until gdal.Open returns None for a missing file
OpenedUntilMissing(s, g, d) ==
    {FileRead(s, ReadOrder(s)[k]) : k \in
        {k \in 1..Len(ReadOrder(s)) :
            \A m \in 1..(k - 1) :
                DatasetRead(s, g, d, ReadOrder(s)[m]).state # "absent"}}

\* the reads of the rasters and the reshape(dim1*dim2) of each
ReadRasters ==
    /\ pc = "read"
    /\ opened' = OpenedUntilMissing(script, geo, disk)
    /\ LET last == ReadOrder(script)[Len(ReadOrder(script))]
           shape == DatasetRead(script, geo, disk, last).ds
           size(r) == DatasetRead(script, geo, disk, r).ds.RasterXSize
                        * DatasetRead(script, geo, disk, r).ds.RasterYSize
       IN  IF \E r \in RasterSet(script) :
                  DatasetRead(script, geo, disk, r).state = "absent"
           THEN /\ pc' = "crash"
                /\ err' = "AttributeError"
                /\ UNCHANGED <<dim1, dim2, ndv, host, host0, hostEval>>
           ELSE IF /\ script # "perte17"
                   /\ \E r \in RasterSet(script) :
                         size(r) # shape.RasterXSize * shape.RasterYSize
           THEN /\ pc' = "crash"
                /\ err' = "ValueError"
                /\ UNCHANGED <<dim1, dim2, ndv, host, host0, hostEval>>
           ELSE /\ pc' = "eval"
                /\ err' = err
                /\ dim1' = shape.RasterYSize
                /\ dim2' = shape.RasterXSize
                /\ ndv' = IF script = "perte17" THEN LastNdv(ndvDecl) ELSE ndv
                /\ host' = HostRead(script, geo, disk)
                /\ host0' = host'
                /\ hostEval' = host'
    /\ UNCHANGED <<evalVars, tableFiles, geo, disk, faulty, thr, joined, box, warps>>

\* the first n elements of a; past its end a thread reads whatever v is there
Fit(a, n, v) == [k \in 1..n |-> IF k <= Len(a) THEN a[k] ELSE v]

\* perte17, arrays of different lengths: the launch is sized by occ_sol and
\* the kernel indexes every array with the same position, without bounds check
EvaluateMismatched ==
    /\ pc = "eval"
    /\ script = "perte17"
    /\ ~SameLengths(host)
    /\ ~(dim1 * dim2 > dimmax)
    /\ \E gK \in GarbageOf(script), gC \in GarbageOf(script),
          o \in {PerteSamples[1], PerteSamples[3]} :
          LET n == Len(host.h_occ_sol)
              cells0 == PerteCells(Fit(host.h_pente, n, o.pente),
                                   Fit(host.h_R, n, o.R),
                                   Fit(host.h_tx_argile, n, o.tx_argile),
                                   Fit(host.h_tx_limon, n, o.tx_limon),
                                   Fit(host.h_tx_sable, n, o.tx_sable),
                                   host.h_occ_sol, gK, gC)
              cells == RunKernel(cells0)
              out == ResultArrays(cells)
          IN  /\ device' = [in |-> cells0, out |-> cells]
              /\ dispatch' = Append(dispatch, Launch(Len(cells0)))
              /\ raster' = [r \in OutNames(script) |-> Reshape(out[r], dim1, dim2)]
    /\ nb' = 0
    /\ pc' = "write"
    /\ UNCHANGED <<script, dimmax, dim1, dim2, ndvDecl, ndv, tabCorCod,
                   tabCoefBat, occ_sol_coeff_c, host, host0, hostEval, scen, i,
                   lst, res_lst, written>>
    /\ UNCHANGED alignVars

NextAlign ==
    \/ LoadTables
    \/ EmpriseMinimale
    \/ CreateThreads
    \/ StartThread
    \/ \E t \in ThreadSet : warp_raster(t)
    \/ JoinThread
    \/ ReadRasters
    \/ EvaluateMismatched
    \/ Split
    \/ ChunkIter
    \/ Concatenate
    \/ SinglePass
    \/ LaunchFault
    \/ WriteOutputs

SpecAlign == InitAlign /\ [][NextAlign]_vars

(***************************************************************************)
(* Properties of the chunked evaluation.                                   *)
(***************************************************************************)

\* the rasters the else branch computes from the arrays h
SinglePassRaster(h, gK, gC) ==
    LET out == ResultArrays(RunKernel(WholeCells(h, gK, gC)))
    IN  [o \in OutNames(script) |-> Reshape(out[o], dim1, dim2)]

\* the scenario went through the if branch (nb chunks)
Chunked == pc \in {"loop", "write"} /\ nb > 0

\* the cell of a reshaped raster that holds flat position p (1-based)
CellAt(ras, p) == ras[((p - 1) \div dim2) + 1][((p - 1) % dim2) + 1]

ChunkSizes == [j \in 1..Len(lst.dataOccSol_lst) |->
                 lst.dataOccSol_lst[j].hi - lst.dataOccSol_lst[j].lo]

\* C1: for every total size T and threshold M, the rasters of a scenario
\* evaluated in chunks are exactly the rasters a single launch on the same
\* whole arrays produces.
C1_ChunkingTransparency ==
    (pc = "write" /\ nb > 0) =>
        \A gK \in GarbageOf(script), gC \in GarbageOf(script) :
            raster = SinglePassRaster(hostEval, gK, gC)

\* the same statement for the scripts whose kernels read no unwritten memory
ChunkingTransparencyCrus ==
    (script \in CrusScripts /\ pc = "write" /\ nb > 0) =>
        raster = SinglePassRaster(hostEval, RInt(0), RInt(0))

\* C2: the chunks of every input array are contiguous, disjoint, cover
\* positions 0..T-1 in order, have the same boundaries for every input array,
\* and the chunk results are concatenated in the order of the split.
C2_ChunksContiguous ==
    Chunked =>
        /\ \A l \in DOMAIN lst :
              /\ Len(lst[l]) = nb
              /\ lst[l][1].lo = 0
              /\ lst[l][nb].hi = dim1 * dim2
              /\ \A j \in 1..nb : lst[l][j].lo < lst[l][j].hi
              /\ \A j \in 1..(nb - 1) : lst[l][j].hi = lst[l][j + 1].lo
              /\ \A j \in 1..nb :
                    /\ lst[l][j].lo = lst.dataOccSol_lst[j].lo
                    /\ lst[l][j].hi = lst.dataOccSol_lst[j].hi
        /\ pc = "write" =>
              \A o \in OutNames(script) : \A j \in 1..nb :
                  /\ Len(res_lst[o][j]) = ChunkSizes[j]
                  /\ \A k \in 1..ChunkSizes[j] :
                        CellAt(raster[o], lst.dataOccSol_lst[j].lo + k)
                            = res_lst[o][j][k]

\* a scenario split into four chunks of different lengths, after the
\* concatenation
C2_Witness == pc = "write" /\ nb = 4 /\ ChunkSizes = <<3, 2, 2, 2>>

\* the results the kernel can give for flat position p of the arrays h
PossibleResults(h, o, p) ==
    {ResultArrays(RunKernel(WholeCells(h, gK, gC)))[o][p] :
        gK \in GarbageOf(script), gC \in GarbageOf(script)}

\* C3: the concatenated results have dim1*dim2 elements, and after the
\* reshape cell (r, c) holds the result computed for input position
\* r*dim2 + c; a 3x3 raster split into 2 chunks has chunks of 5 and 4 pixels.
C3_RoundTripReshape ==
    /\ (pc = "loop" /\ i = nb) =>
          \A o \in OutNames(script) : Len(Concat(res_lst[o])) = dim1 * dim2
    /\ pc = "write" =>
          \A o \in OutNames(script) :
              /\ Len(raster[o]) = dim1
              /\ \A r \in 1..dim1 :
                    /\ Len(raster[o][r]) = dim2
                    /\ \A c \in 1..dim2 :
                          raster[o][r][c] \in
                              PossibleResults(hostEval, o, (r - 1) * dim2 + c)
    /\ (Chunked /\ dim1 = 3 /\ dim2 = 3 /\ nb = 2) => ChunkSizes = <<5, 4>>

\* a 3x3 raster evaluated in 2 chunks, reshaped
C3_Witness == pc = "write" /\ dim1 = 3 /\ dim2 = 3 /\ nb = 2

\* C4: when T > M the arrays are split into exactly ceil(T/M) chunks whose
\* lengths differ by at most one; when T <= M there is a single pass.
C4_CeilChunks ==
    (script \in ChunkingScripts /\ pc \in {"loop", "write"}) =>
        IF dim1 * dim2 > dimmax
        THEN /\ nb = CeilDiv(dim1 * dim2, dimmax)
             /\ Len(ChunkSizes) = nb
             /\ \A j, k \in 1..nb : ChunkSizes[j] - ChunkSizes[k] <= 1
        ELSE nb = 0

\* C5: no launch receives more than M pixels.
C5_DispatchBounded ==
    script \in ChunkingScripts =>
        \A k \in DOMAIN dispatch : dispatch[k].n <= dimmax

(***************************************************************************)
(* Properties of the kernels, stated on the arrays of the last launch.     *)
(***************************************************************************)

Launched == Len(dispatch) > 0

Threads == IF Launched THEN DOMAIN device.in ELSE {}

B(p) == IF p THEN 1 ELSE 0

\* C6: every pixel whose slope equals the no-data value of the slope raster
\* gets -1 in the three outputs of the erosion formula (A, kg per pixel,
\* thickness), whatever its other inputs.
C6_NoDataDominance ==
    script \in PerteScripts =>
        \A k \in Threads :
            device.in[k].pente = ndvDecl["pente"] =>
                /\ device.out[k].result_A = RInt(-1)
                /\ device.out[k].result_kg_px = RInt(-1)
                /\ device.out[k].result_epaisseur = RInt(-1)

\* the class of the real number num / den (den > 0)
ClassOfExact(num, den) ==
    IF num < 0 THEN -1
    ELSE IF num <= 32 * den THEN 0
    ELSE IF num <= 42 * den THEN 1
    ELSE IF num <= 55 * den THEN 2
    ELSE 3

\* the entries of tabCoefBat that match the crust code of a pixel
Matches(c) == {e \in 1..Len(tabCoefBat) : tabCoefBat[e][1] = c.dataBattance}

\* C7: in every CRUS kernel the class written for a weighted blend v is -1
\* if v < 0, 0 if 0 <= v <= 32, 1 if 32 < v <= 42, 2 if 42 < v <= 55 and 3
\* if v > 55, so that a blend just above 32, 42 or 55 is in the next class.
C7_QuantizationThresholds ==
    script \in CrusScripts =>
        \A k \in Threads :
            LET b == [device.in[k] EXCEPT !.dataPentes = device.out[k].dataPentes]
                o == device.out[k]
                avec == IF script = "crus11" THEN BlendSansPente(b) ELSE BlendPente(b)
            IN  /\ o.data_Ssbatt = ClassOfExact(avec, 100)
                /\ script = "crus15" =>
                      o.data_Ssbatt_sp = ClassOfExact(BlendSansPente(b), 100)
                /\ \A e \in Matches(b) :
                      Cardinality(Matches(b)) = 1 =>
                          /\ o.dataResult = ClassOfExact(tabCoefBat[e][2] * avec, 10000)
                          /\ script = "crus15" =>
                                o.dataResult_sp =
                                    ClassOfExact(tabCoefBat[e][2] * BlendSansPente(b), 10000)

\* C8: the difference code of every pixel is 20000 + 1000 a + 100 b + 10 c + d
\* with a = (crust, slope) class equals (no crust, slope) class,
\* b = (crust, no slope) equals (no crust, no slope), c = (crust, slope)
\* equals (crust, no slope), d = (no crust, slope) equals (no crust, no
\* slope), in the kernel and in the rasters of the scenario.
C8_DiffCode ==
    script = "crus15" =>
        /\ \A k \in Threads :
              LET o == device.out[k]
              IN  o.dataDiff = 20000 + 1000 * B(o.dataResult = o.data_Ssbatt)
                                     + 100 * B(o.dataResult_sp = o.data_Ssbatt_sp)
                                     + 10 * B(o.dataResult = o.dataResult_sp)
                                     + B(o.data_Ssbatt = o.data_Ssbatt_sp)
        /\ pc = "write" =>
              \A r \in 1..dim1 : \A c \in 1..dim2 :
                  raster.raster_diff[r][c] =
                      20000
                      + 1000 * B(raster.raster_result[r][c] = raster.raster_result_ssbatt[r][c])
                      + 100 * B(raster.raster_result_sp[r][c] = raster.raster_result_ssbatt_sp[r][c])
                      + 10 * B(raster.raster_result[r][c] = raster.raster_result_sp[r][c])
                      + B(raster.raster_result_ssbatt[r][c] = raster.raster_result_ssbatt_sp[r][c])

\* a launch of crus15 with a pixel where only some of the four comparisons
\* hold, and one where the first two differ
C8_Witness ==
    /\ script = "crus15"
    /\ pc = "write"
    /\ \E k \in Threads :
          LET o == device.out[k]
          IN  (o.dataResult = o.data_Ssbatt) # (o.dataResult_sp = o.data_Ssbatt_sp)

NoBand(argile, sable) == \A b \in 1..5 : ~KCond(b, argile, sable)

\* C9: the five K conditions are pairwise exclusive, the value written is
\* 0.0115, 0.0311, 0.0438, 0.0339, 0.0170 for bands 1 to 5, and a pair that
\* matches no band (clay exactly 35 or 60, clay exactly 18 with sand >= 15,
\* clay < 35 with 15 <= sand <= 65) leaves K[pos] at its previous value.
C9_KBand ==
    script \in PerteScripts =>
        \A k \in Threads :
            LET a == device.in[k].tx_argile
                s == device.in[k].tx_sable
                K0 == device.in[k].K
                K1 == device.out[k].K
            IN  /\ \A b1, b2 \in 1..5 :
                      b1 # b2 => ~(KCond(b1, a, s) /\ KCond(b2, a, s))
                /\ (a < 18 /\ s > 65) => K1 = RQ(115, 10000)
                /\ (a > 18 /\ a < 35 /\ s > 65) => K1 = RQ(311, 10000)
                /\ (a < 35 /\ s < 15) => K1 = RQ(438, 10000)
                /\ (a > 35 /\ a < 60) => K1 = RQ(339, 10000)
                /\ a > 60 => K1 = RQ(170, 10000)
                /\ NoBand(a, s) => K1 = K0
                /\ (a \in {35, 60} \/ (a = 18 /\ s >= 15)
                        \/ (a < 35 /\ s >= 15 /\ s <= 65)) =>
                      NoBand(a, s) /\ K1 = K0

\* C9 as stated: every pair with clay exactly 18, 35 or 60, or clay < 35
\* with 15 <= sand <= 65, keeps the previous K[pos].
C9_KBandAsStated ==
    script \in PerteScripts =>
        \A k \in Threads :
            LET a == device.in[k].tx_argile
                s == device.in[k].tx_sable
            IN  (a \in {18, 35, 60} \/ (a < 35 /\ s >= 15 /\ s <= 65)) =>
                    device.out[k].K = device.in[k].K

\* a launch with a pixel in a band and a pixel in no band whose K[pos] held
\* a non-zero value before the launch
C9_Witness ==
    /\ script \in PerteScripts
    /\ \E k \in Threads :
          \E b \in 1..5 : KCond(b, device.in[k].tx_argile, device.in[k].tx_sable)
    /\ \E k \in Threads :
          /\ NoBand(device.in[k].tx_argile, device.in[k].tx_sable)
          /\ device.in[k].K = RQ(1, 2)
          /\ device.out[k].K = RQ(1, 2)

\* C10: for every pixel that is not no-data, A = R * K * C * LS,
\* kg per pixel = A * 0.0025 * 1000 and thickness = (kg per pixel / 1250) / 25.
C10_ErosionOutputs ==
    script \in PerteScripts =>
        \A k \in Threads :
            LET c == device.in[k]
                o == device.out[k]
                LS == IF script = "perte17" THEN o.LS ELSE RMul(o.L, o.S)
                A == RMul(RMul(RMul(RInt(c.R), o.K), o.C), LS)
                kg == RMul(RMul(A, RQ(25, 10000)), RInt(1000))
            IN  (c.pente # ndvDecl["pente"] /\ c.pente # ndv) =>
                    /\ o.result_A = A
                    /\ o.result_kg_px = kg
                    /\ o.result_epaisseur = RDivInt(RDivInt(kg, 1250), 25)

(***************************************************************************)
(* Properties of the alignment.                                            *)
(***************************************************************************)

\* the extents of all the input rasters of the run
AllExtents == {Extent(geo[r]) : r \in RasterSet(script)}

\* the intersection of the extents of all the inputs, at the coarsest
\* resolution of all the inputs
IntersectionOfAll ==
    [xmin |-> Max({d.xmin : d \in AllExtents}),
     ymin |-> Max({d.ymin : d \in AllExtents}),
     xmax |-> Min({d.xmax : d \in AllExtents}),
     ymax |-> Min({d.ymax : d \in AllExtents}),
     resX |-> Max({d.resX : d \in AllExtents}),
     resY |-> Max({d.resY : d \in AllExtents})]

\* the box has been computed
BoxComputed == DOMAIN box # {}

\* every input has the same extent and the same resolution
AllAligned == \A d \in AllExtents : d = IntersectionOfAll

\* the rasters have been read into the host arrays
HostRead_done == DOMAIN host # {}

\* C11: the common box is xmin = max xmin_i, ymin = max ymin_i,
\* xmax = min xmax_i, ymax = min ymax_i, and the common resolution is
\* resX = max resX_i, resY = max resY_i, taken over all the input rasters.
C11_MinimalBox == BoxComputed => box = IntersectionOfAll

\* C12: when all inputs already share extent and resolution, no warp is
\* performed and the evaluation reads the original input files.
C12_AlignedNoWarp ==
    AllAligned =>
        /\ warps = 0
        /\ \A f \in opened : \E r \in RasterSet(script) : f = <<r>>

\* C13: when at least one input differs from the common box or resolution,
\* every input is resampled before it is read, so that the arrays given to
\* the formula all have the same dimensions.
C13_AllResampled ==
    (~AllAligned /\ HostRead_done) =>
        /\ \A t \in ThreadSet : thr[t] = "done"
        /\ \A r \in RasterSet(script) :
              disk[WarpedName(script, r)] = [state |-> "fresh", ds |-> Warped(box)]
        /\ SameLengths(host)

\* C14: when the box is degenerate (xmax <= xmin or ymax <= ymin) the run
\* fails with a geometry error before any resampling task starts, and no
\* output raster is produced.
C14_DegenerateBoxFails ==
    (BoxComputed /\ ~Warpable(IntersectionOfAll)) =>
        /\ \A t \in ThreadSet : thr[t] \in {"none", "new"}
        /\ warps = 0
        /\ written = <<>>
        /\ pc \notin {"threads", "start"} => (pc = "crash" /\ err = "GeometryError")

\* C15: in every interleaving of the warp threads, no resampled raster is
\* opened by the main thread before every warp thread has terminated.
C15_JoinBarrier ==
    (pc = "read" \/ \E f \in opened : f \in WarpedSet(script)) =>
        \A t \in ThreadSet : thr[t] \in {"none", "done", "failed"}

\* the six warps ran, and the resampled rasters have been opened
C15_Witness ==
    /\ script = "crus15"
    /\ warps = Len(ThreadNames)
    /\ \A t \in ThreadSet : thr[t] = "done"
    /\ opened = WarpedSet(script)

\* C16: when a warp thread fails, the run stops after the joins: it does not
\* read the resampled rasters, evaluate the formula or write an output.
C16_FailFast ==
    (\E t \in ThreadSet : thr[t] = "failed") =>
        /\ opened = {}
        /\ dispatch = <<>>
        /\ written = <<>>
        /\ pc \in {"start", "join", "crash"}

\* a line without "=", or with a field that is not a number
Malformed(line) ==
    \/ \A k \in 1..Len(line) : line[k] # "="
    \/ \E j \in 1..Len(SplitEq(line, 1, <<>>)) :
          ~IsFloatLiteral(SplitEq(line, 1, <<>>)[j])

SomeLineMalformed ==
    \E n \in DOMAIN tableFiles : \E k \in 1..Len(tableFiles[n]) :
        Malformed(tableFiles[n][k])

\* C17: a malformed line of a correspondence table (no "=", or a field that
\* is not a number) stops the run with an exception before any warp thread
\* is created, before any pixel is evaluated and before any output is written.
C17_MalformedTableFatal ==
    SomeLineMalformed =>
        /\ pc \in {"tables", "crash"}
        /\ pc = "crash" => err \in {"ValueError", "IndexError"}
        /\ thr = NoThreads
        /\ warps = 0
        /\ opened = {}
        /\ dispatch = <<>>
        /\ written = <<>>

\* a line whose first two fields are not both there and numbers
BadKeyOrValue(line) ==
    LET lignee == SplitEq(line, 1, <<>>)
    IN  \/ Len(lignee) < 2
        \/ ~IsFloatLiteral(lignee[1])
        \/ ~IsFloatLiteral(lignee[2])

\* a line the scripts cannot convert stops the run before the threads, the
\* evaluation and the outputs
UnconvertibleLineFatal ==
    (\E n \in DOMAIN tableFiles : \E k \in 1..Len(tableFiles[n]) :
        BadKeyOrValue(tableFiles[n][k])) =>
        /\ pc \in {"tables", "crash"}
        /\ pc = "crash" => err \in {"ValueError", "IndexError"}
        /\ thr = NoThreads
        /\ warps = 0
        /\ opened = {}
        /\ dispatch = <<>>
        /\ written = <<>>

\* the rows of a table whose key does not appear in an earlier row
RECURSIVE FirstEntries(_, _)
FirstEntries(tab, k) ==
    IF k > Len(tab) THEN <<>>
    ELSE (IF \E m \in 1..(k - 1) : tab[m][1] = tab[k][1] THEN <<>> ELSE <<tab[k]>>)
         \o FirstEntries(tab, k + 1)

\* C18: table lookup is first-match-wins: for any table, repeated keys
\* included, the value resolved for a pixel is that of the first entry in
\* table order whose key equals the pixel's code, so a launch gives what it
\* gives with only the first entry of each key in the tables.
C18_FirstMatchWins ==
    Launched =>
        \A k \in DOMAIN device.in :
            device.out[k] =
                KernelWith(device.in[k], FirstEntries(tabCorCod, 1),
                           FirstEntries(tabCoefBat, 1),
                           FirstEntries(occ_sol_coeff_c, 1))

\* C19: the input arrays are read-only during the evaluation: after any
\* launch, single pass or chunked, every host input array holds the values
\* it held when it was read.
C19_InputsReadOnly == Launched => host = host0

\* C20: every output raster is created and written exactly once per run: no
\* two write steps, over the outputs and the land-cover scenarios of a
\* script, target the same file, and when the run is done every output file
\* of every scenario has been written.
C20_WrittenOnce ==
    /\ \A j, k \in 1..Len(written) :
          written[j].file = written[k].file => j = k
    /\ pc = "done" =>
          \A sc \in 1..NbScen(script) : \A n \in 1..Len(OutFiles(script)) :
              Cardinality({k \in 1..Len(written) :
                  written[k].file = <<OutFiles(script)[n].base, Suffix(script, sc)>>}) = 1

\* crus15 has written its five outputs for its three scenarios
C20_Witness == pc = "done" /\ script = "crus15" /\ Len(written) = 15

(***************************************************************************)
(* Properties of the formulas, stated on the arrays of the last launch.    *)
(***************************************************************************)

\* the no-data value declared on the difference raster of the script
DiffNoData ==
    LET n == CHOOSE n \in 1..Len(OutFiles(script)) :
                 OutFiles(script)[n].out = "raster_diff"
    IN  OutFiles(script)[n].nodata

\* C21: the no-data value declared on a difference raster (91111 for the
\* packed difference of crus15, -1 for the two-valued difference) is never
\* the difference code computed for a pixel.
C21_DiffSentinelDistinct ==
    script \in CrusScripts =>
        \A k \in Threads : device.out[k].dataDiff # DiffNoData

\* C22: each formula is a function of the pixel's inputs and of the tables:
\* the outputs of a pixel do not depend on what the work arrays held before
\* the launch, also when no table entry and no K band matches.
C22_PureFunction ==
    script \in PerteScripts =>
        \A k \in Threads : \A gK \in Garbage, gC \in Garbage :
            OutOfCell(script,
                      KernelOf([device.in[k] EXCEPT
                                   !.C = gC, !.K = gK, !.LS = gK, !.L = gK,
                                   !.S = gK, !.result_A = gK,
                                   !.result_epaisseur = gK,
                                   !.result_kg_px = gK]))
              = OutOfCell(script, device.out[k])

\* C23: in perte17 the value the kernel compares with the slope is the
\* no-data value declared by the slope raster, whatever the no-data values
\* declared by the rasters.
C23_SlopeSentinel ==
    (script = "perte17" /\ Launched) => ndv = ndvDecl["pente"]

\* C24: a crust code that is no key of the crust table is a silent no-op:
\* the with-crusting outputs of the pixel are the class of the value the
\* work array was filled with, the pixel's land-cover value, and the
\* without-crusting outputs are the class of the blend.
C24_NoMatchKeepsPrefill ==
    script \in CrusScripts =>
        \A k \in Threads :
            LET b == [device.in[k] EXCEPT !.dataPentes = device.out[k].dataPentes]
                o == device.out[k]
            IN  Matches(b) = {} =>
                  /\ o.dataResult = Quantize(b.dataOccSol)
                  /\ o.data_Ssbatt =
                        Quantize(TruncDiv(IF script = "crus11" THEN BlendSansPente(b)
                                          ELSE BlendPente(b), 100))
                  /\ script = "crus15" =>
                        /\ o.dataResult_sp = Quantize(b.dataOccSol)
                        /\ o.data_Ssbatt_sp = Quantize(TruncDiv(BlendSansPente(b), 100))

\* a pixel of crus15 whose crust code is not in the table, and whose
\* with-crusting class differs from its without-crusting class
C24_Witness ==
    /\ script = "crus15"
    /\ \E k \in Threads :
          /\ Matches(device.in[k]) = {}
          /\ device.out[k].dataResult # device.out[k].data_Ssbatt
          /\ device.out[k].dataResult # 0

\* C25: for every array length n, a launch of ceil(n/1024) blocks of 1024
\* threads executes the formula for the positions 0..n-1 only: every pixel
\* is evaluated once and no thread reads or writes an index >= n.
C25_LaunchInBounds ==
    /\ \A l \in 1..Len(dispatch) : dispatch[l].threads = dispatch[l].n
    /\ err # "CudaAPIError"

\* the rasters a scenario gives when it is evaluated alone, in one launch,
\* on the arrays as they were read
ScenarioAlone(sc) ==
    LET cells == RunKernel(CrusCells(host0.dataPentes, host0.dataPermea,
                                     host0[OccSolNames(script)[sc]],
                                     host0.dataBattance))
    IN  [o \in OutNames(script) |->
            Reshape(ResultArrays(cells)[o], dim1, dim2)]

\* C26: in the scripts that evaluate the land-cover scenarios 5a, 2021 and
\* modif one after the other, the rasters of each scenario are those the
\* scenario gives when evaluated alone on the arrays as read: they do not
\* depend on the scenarios evaluated before.
C26_ScenarioIndependence ==
    (script \in {"crus15", "copie15"} /\ pc = "write") =>
        raster = ScenarioAlone(scen)

\* no key appears twice in the table
UniqueKeys(tab) == \A j, k \in 1..Len(tab) : tab[j][1] = tab[k][1] => j = k

\* C27: the slope reclassification is single-step: with a reclass table of
\* unique keys, the slope the blend uses is the value paired with the slope
\* code the pixel had, or that code when no key matches, even when the value
\* of an entry is the key of a later entry.
C27_SingleStepReclass ==
    (script \in CrusScripts /\ UniqueKeys(tabCorCod)) =>
        \A k \in Threads :
            device.out[k].dataPentes =
                IF \E e \in 1..Len(tabCorCod) : tabCorCod[e][1] = device.in[k].dataPentes
                THEN tabCorCod[CHOOSE e \in 1..Len(tabCorCod) :
                                   tabCorCod[e][1] = device.in[k].dataPentes][2]
                ELSE device.in[k].dataPentes

\* the codes 20000 + 1000a + 100b + 10c + d with a, b, c, d in {0, 1}
PackedCodes ==
    {20000 + 1000 * a + 100 * b + 10 * c + d :
        a \in {0, 1}, b \in {0, 1}, c \in {0, 1}, d \in {0, 1}}

\* C28: after any evaluation every pixel of the packed difference of crus15
\* is one of the 16 codes 20000 + 1000a + 100b + 10c + d, within the signed
\* 16-bit range, and the codes with exactly three agreement bits (20111,
\* 21011, 21101, 21110) never occur.
C28_ReachableDiffCodes ==
    script = "crus15" =>
        /\ \A k \in Threads :
              /\ device.out[k].dataDiff \in PackedCodes
              /\ device.out[k].dataDiff \notin {20111, 21011, 21101, 21110}
              /\ device.out[k].dataDiff < 32768
        /\ pc = "write" =>
              \A r \in 1..dim1 : \A c \in 1..dim2 :
                  raster.raster_diff[r][c] \in
                      PackedCodes \ {20111, 21011, 21101, 21110}

\* a launch of crus15 with a pixel where the four classes agree and a pixel
\* where exactly two comparisons hold
C28_Witness ==
    /\ script = "crus15"
    /\ \E k \in Threads : device.out[k].dataDiff = 21111
    /\ \E k \in Threads :
          device.out[k].dataDiff \in {21100, 21010, 21001, 20110, 20101, 20011}

\* slope tables other than the one of the run
OtherSlopeTables ==
    TabCorCodChoices \cup {<<>>, << <<1, 80>>, <<2, 40>>, <<4, 0>> >>}

\* C29: the without-slope outputs of a pixel, with and without crusting, do
\* not depend on the pixel's slope or on the slope reclass table: the same
\* pixel with another slope and another slope table gets the same
\* without-slope classes.
C29_SansPenteIgnoresSlope ==
    script \in {"crus15", "crus11"} =>
        \A k \in Threads : \A p \in PenteVals \cup {80} : \A t \in OtherSlopeTables :
            LET alt == KernelWith([device.in[k] EXCEPT !.dataPentes = p], t,
                                  tabCoefBat, occ_sol_coeff_c)
                o == device.out[k]
            IN  IF script = "crus15"
                THEN /\ alt.dataResult_sp = o.dataResult_sp
                     /\ alt.data_Ssbatt_sp = o.data_Ssbatt_sp
                ELSE /\ alt.dataResult = o.dataResult
                     /\ alt.data_Ssbatt = o.data_Ssbatt

\* a pixel of crus15 whose with-slope class does change with the slope
C29_Witness ==
    /\ script = "crus15"
    /\ \E k \in Threads : \E p \in PenteVals : \E t \in OtherSlopeTables :
          KernelWith([device.in[k] EXCEPT !.dataPentes = p], t,
                     tabCoefBat, occ_sol_coeff_c).data_Ssbatt
            # device.out[k].data_Ssbatt

\* crust tables other than the one of the run
OtherCrustTables ==
    TabCoefBatChoices \cup {<<>>, << <<1, 50>>, <<7, 200>> >>}

\* the multiplier the loop over tabCoefBat leaves for a pixel, 0 if none
ResolvedMultiplier(c) ==
    IF Matches(c) = {} THEN 0 ELSE tabCoefBat[Max(Matches(c))][2]

\* C30: the without-crusting outputs of a pixel do not depend on its crust
\* code or on the crust table; and when the multiplier resolved for a pixel
\* is 100, its with-crusting class equals its without-crusting class, with
\* and without slope (bits 1000 and 100 of the difference code are set).
C30_CrustNeutral ==
    script \in CrusScripts =>
        \A k \in Threads :
            LET o == device.out[k]
            IN  /\ \A bc \in BattVals : \A t \in OtherCrustTables :
                      LET alt == KernelWith([device.in[k] EXCEPT !.dataBattance = bc],
                                            tabCorCod, t, occ_sol_coeff_c)
                      IN  /\ alt.data_Ssbatt = o.data_Ssbatt
                          /\ script = "crus15" => alt.data_Ssbatt_sp = o.data_Ssbatt_sp
                /\ ResolvedMultiplier(device.in[k]) = 100 =>
                      /\ o.dataResult = o.data_Ssbatt
                      /\ script = "crus15" =>
                            /\ o.dataResult_sp = o.data_Ssbatt_sp
                            /\ (o.dataDiff - 20000) \div 1000 = 1
                            /\ ((o.dataDiff - 20000) % 1000) \div 100 = 1

\* a pixel of crus15 whose resolved multiplier is 100 and whose class is not
\* zero, in a run whose crust table also holds another multiplier
C30_Witness ==
    /\ script = "crus15"
    /\ \E e \in DOMAIN tabCoefBat : tabCoefBat[e][2] # 100
    /\ \E k \in Threads :
          /\ ResolvedMultiplier(device.in[k]) = 100
          /\ device.out[k].dataResult > 0
          /\ device.out[k].dataDiff >= 21100

====
